---- MODULE Spec2Model ----
(***************************************************************************)
(* The LS-8 emulator of src/ls8/cpu.py: class CPU, its loader and its      *)
(* fetch/dispatch loop, with Python's semantics for integers (unbounded)   *)
(* and for list indexing (negative indices count from the end, anything    *)
(* outside -len..len-1 raises IndexError).                                 *)
(***************************************************************************)
EXTENDS Integers, Sequences, FiniteSets, TLC

(* ---- op codes, cpu.py:6-18 ---- *)
LDI == 130
PRN == 71
MUL == 162
HLT == 1
PUSH == 69
POP == 70
CALL == 80
RET == 17
ADD == 160
CMP == 167
JMP == 84
JEQ == 85
JNE == 86

(* len(self.ram) and len(self.reg), cpu.py:27 and cpu.py:29 *)
RamSize == 256
RegCount == 8
(* self.SP = len(self.reg) - 1: the index of the stack pointer register *)
SP == RegCount - 1

(* ---- bounds of the model ---- *)
(* run() iterations followed per run *)
MaxSteps == 16
(* instructions after the prologue in the generated programs *)
MaxBody == 2
(* ADD and MUL are followed while both operands are within                 *)
(* -MaxValue..MaxValue (Python's integers are unbounded)                   *)
MaxValue == 30000

VARIABLES
    stage,      \* "constructed" after CPU(), "loaded" once load() returned
    ram,        \* self.ram
    reg,        \* self.reg
    PC,         \* self.PC
    FL,         \* self.FL
    running,    \* self.running
    out,        \* the lines written to standard output, oldest first
    raised,     \* the exception that ended the process, or NoException
    prog,       \* the bytes load() stored, in order (history of the load loop)
    steps,      \* run() iterations executed so far
    history,    \* per iteration of run(), what it fetched and the state it started in
    file        \* the lines of the file load() was given

vars == <<stage, ram, reg, PC, FL, running, out, raised, prog, steps, history, file>>

(* ---- Python lists ---- *)
\* i is an index Python accepts for a list of length n
Valid(i, n) == -n <= i /\ i < n
\* the cell that index i names
At(i, n) == IF i < 0 THEN i + n ELSE i

NoException == [type |-> "none", args |-> <<>>]
Exception(type, args) == [type |-> type, args |-> args]

(* ---- text: a string is a sequence of one-character strings ---- *)
Digit(d) == CASE d = 0 -> "0" [] d = 1 -> "1" [] d = 2 -> "2" [] d = 3 -> "3"
              [] d = 4 -> "4" [] d = 5 -> "5" [] d = 6 -> "6" [] d = 7 -> "7"
              [] d = 8 -> "8" [] d = 9 -> "9"

RECURSIVE Decimal(_)
Decimal(n) == IF n < 10 THEN <<Digit(n)>> ELSE Decimal(n \div 10) \o <<Digit(n % 10)>>

\* str(n) for a Python int
Str(n) == IF n < 0 THEN <<"-">> \o Decimal(-n) ELSE Decimal(n)

Whitespace == {" ", "\n", "\t", "\r"}

\* s.split('#')[0]
RECURSIVE BeforeHash(_)
BeforeHash(s) ==
    IF s = <<>> \/ Head(s) = "#" THEN <<>> ELSE <<Head(s)>> \o BeforeHash(Tail(s))

RECURSIVE LStrip(_)
LStrip(s) == IF s # <<>> /\ Head(s) \in Whitespace THEN LStrip(Tail(s)) ELSE s

RECURSIVE RStrip(_)
RStrip(s) ==
    IF s # <<>> /\ s[Len(s)] \in Whitespace THEN RStrip(SubSeq(s, 1, Len(s) - 1)) ELSE s

\* s.strip()
Strip(s) == RStrip(LStrip(s))

\* int(s, 2) accepts s: a non-empty run of binary digits (signs, the 0b prefix
\* and underscores, which int() also accepts, occur in no listing drawn below)
IsBinary(s) == s # <<>> /\ \A i \in 1..Len(s) : s[i] \in {"0", "1"}

RECURSIVE IntBase2(_)
IntBase2(s) ==
    IF s = <<>> THEN 0
    ELSE 2 * IntBase2(SubSeq(s, 1, Len(s) - 1)) + (IF s[Len(s)] = "1" THEN 1 ELSE 0)

(* ---- CPU.load's loop over the lines of the file ---- *)
\* the mutant of LoadLine: a line past the end of ram is dropped without an error
LoadLine_truncates(st, line) ==
    IF st.raised # NoException THEN st
    ELSE IF line = <<"\n">> \/ Head(line) = "#" THEN st
    ELSE LET instruction == Strip(BeforeHash(line)) IN
         IF ~IsBinary(instruction)
         THEN [st EXCEPT !.raised = Exception("ValueError", <<>>)]
         ELSE IF ~Valid(st.address, RamSize)
         THEN st
         ELSE [st EXCEPT !.ram[At(st.address, RamSize)] = IntBase2(instruction),
                         !.stored = Append(@, IntBase2(instruction)),
                         !.address = @ + 1]

\* st = [ram, address, raised, stored]; the loop stops at the first exception
LoadLine(st, line) ==
    IF st.raised # NoException THEN st
    ELSE IF line = <<"\n">> \/ Head(line) = "#" THEN st
    ELSE LET instruction == Strip(BeforeHash(line)) IN
         IF ~IsBinary(instruction)
         THEN [st EXCEPT !.raised = Exception("ValueError", <<>>)]
         ELSE IF ~Valid(st.address, RamSize)
         THEN [st EXCEPT !.raised = Exception("IndexError", <<>>)]
         ELSE [st EXCEPT !.ram[At(st.address, RamSize)] = IntBase2(instruction),
                         !.stored = Append(@, IntBase2(instruction)),
                         !.address = @ + 1]

\* the loop over lines[lo..hi], in order: the first half of the range, then
\* the second half from the state the first half left
RECURSIVE LoadRange(_, _, _, _)
LoadRange(st, lines, lo, hi) ==
    IF lo > hi THEN st
    ELSE IF lo = hi THEN LoadLine(st, lines[lo])
    ELSE CHOOSE last \in {LoadRange(first, lines, (lo + hi) \div 2 + 1, hi) :
                              first \in {LoadRange(st, lines, lo, (lo + hi) \div 2)}} : TRUE

LoadLines(st, lines) == LoadRange(st, lines, 1, Len(lines))

(* ---- the inputs: command lines and program listings ---- *)
Script == <<"l", "s", "8", ".", "p", "y">>
FileName == <<"p", "r", "o", "g", ".", "l", "s", "8">>

RECURSIVE Bits(_, _)
Bits(b, n) == IF n = 0 THEN <<>> ELSE Bits(b \div 2, n - 1) \o <<Digit(b % 2)>>

\* the listing of a byte sequence: one 8-digit binary literal per line
Listing(bytes) == [i \in 1..Len(bytes) |-> Bits(bytes[i], 8) \o <<"\n">>]

RECURSIVE Flatten(_)
Flatten(ss) == IF ss = <<>> THEN <<>> ELSE Head(ss) \o Flatten(Tail(ss))

\* the values the prologue loads into R0 and R1
Pairs == {<<8, 9>>, <<5, 5>>, <<200, 100>>}

\* LDI R0,a; LDI R1,b, after an optional LDI R7,0 that moves the stack to address 0
Prologues ==
    {<<LDI, 0, p[1], LDI, 1, p[2]>> : p \in Pairs}
        \cup {<<LDI, 7, 0, LDI, 0, p[1], LDI, 1, p[2]>> : p \in Pairs}

Palette ==
    { <<PRN, 0>>, <<MUL, 0, 1>>, <<ADD, 0, 1>>, <<CMP, 0, 1>>,
      <<PUSH, 0>>, <<PUSH, 7>>, <<POP, 0>>, <<POP, 7>>, <<CALL, 1>>, <<RET>>,
      <<JMP, 0>>, <<JEQ, 0>>, <<JNE, 0>>, <<HLT>> }

Bodies == UNION {[1..n -> Palette] : n \in 1..MaxBody}

Generated == {pre \o Flatten(body) : pre \in Prologues, body \in Bodies}

\* LDI R0,8; LDI R1,9; MUL R0,R1; PRN R0; HLT
MultProgram == <<LDI, 0, 8, LDI, 1, 9, MUL, 0, 1, PRN, 0, HLT>>

\* equal CMP, then an unequal one, then both conditional jumps
StickyProgram ==
    <<LDI, 0, 5, LDI, 1, 5, CMP, 0, 1, LDI, 1, 6, CMP, 0, 1, LDI, 2, 21, JNE, 2, JEQ, 2, HLT, PRN, 1, HLT>>

\* the stack pointer driven below -RamSize: SP = 0, -1, -2, -4, ..., -256, then a push
DeepStackProgram ==
    <<LDI, 7, 0, PUSH, 0>> \o Flatten([i \in 1..8 |-> <<ADD, 7, 7>>]) \o <<PUSH, 0, HLT>>

\* a subroutine called and returned from, its result printed twice
CallProgram ==
    <<LDI, 0, 3, LDI, 1, 14, CALL, 1, PRN, 0, CALL, 1, PRN, 0, HLT, ADD, 0, 0, RET>>

\* a register operand that names no register
BadRegisterProgram == <<LDI, 0, 1, PUSH, 0, PRN, 8>>

\* LDI R1,6; CALL R1; HLT; RET: the subroutine is a lone RET
CallRetProgram == <<LDI, 1, 6, CALL, 1, HLT, RET>>

\* a program that fills ram, and one that is a byte longer than ram
FullProgram == [i \in 1..RamSize |-> IF i = 1 THEN HLT ELSE i - 1]
OverlongProgram == [i \in 1..RamSize + 1 |-> IF i = 1 THEN HLT ELSE (i - 1) % RamSize]

\* a JEQ pushed to address 254 and jumped to: it falls through to address 256
RunOffProgram == <<LDI, 0, JEQ, PUSH, 0, LDI, 1, 254, JMP, 1>>

\* the stack placed on the program: the PUSH at 6 stores a HLT over the PRN at 8
CollisionProgram == <<LDI, 7, 9, LDI, 0, HLT, PUSH, 0, PRN, 0, HLT>>

Scenarios ==
    {MultProgram, StickyProgram, DeepStackProgram, CallProgram, BadRegisterProgram,
     CallRetProgram, FullProgram, OverlongProgram, RunOffProgram, CollisionProgram}

Programs == Generated \cup Scenarios

\* listings with what a hand-written file holds: comments, blank lines, padding,
\* a line that is no binary literal, a literal wider than 8 digits
CommentLine == <<"#", " ", "m", "u", "l", "t", "\n">>
Commented(byte) == Bits(byte, 8) \o <<" ", "#", " ", "o", "p", "\n">>
HandWritten ==
    { <<CommentLine, <<"\n">>, Commented(LDI), Commented(0), <<" ">> \o Commented(8),
        Commented(PRN), Commented(0), Commented(HLT)>>,
      <<Commented(HLT), <<" ", "#", "x", "\n">> >>,
      <<Commented(LDI), <<"L", "D", "I", "\n">> >>,
      <<<<"1">> \o Bits(0, 8) \o <<"\n">>, Commented(HLT)>>,
      <<Bits(HLT, 8)>> }

(* ---- CPU.__init__ ---- *)
branchtable == {LDI, PRN, MUL, HLT, PUSH, POP, CALL, RET, ADD, CMP, JMP, JEQ, JNE}

Init ==
    /\ stage = "constructed"
    /\ running = TRUE
    /\ ram = [a \in 0..RamSize - 1 |-> 0]
    /\ reg = [r \in 0..RegCount - 1 |-> IF r = SP THEN RamSize - 1 ELSE 0]
    /\ PC = 0
    /\ FL = 0
    /\ out = <<>>
    /\ raised = NoException
    /\ prog = <<>>
    /\ steps = 0
    /\ history = <<>>
    /\ file = <<>>

(* ---- CPU.load ---- *)
NeedFileName == <<"N", "e", "e", "d", " ", "p", "r", "o", "p", "e", "r", " ", "f", "i", "l", "e",
                  " ", "n", "a", "m", "e", " ", "p", "a", "s", "s", "e", "d", " ", "i", "n", ".">>
FilenameLabel == <<"F", "i", "l", "e", "n", "a", "m", "e", ":", " ">>

load(argv, lines) ==
    /\ IF Len(argv) # 2
       THEN /\ out' = Append(out, NeedFileName)
            /\ raised' = Exception("SystemExit", <<1>>)
            /\ UNCHANGED <<stage, ram, prog, file>>
       ELSE \E st \in {LoadLines([ram |-> ram, address |-> 0, raised |-> NoException,
                                   stored |-> <<>>], lines)} :
            /\ out' = Append(out, FilenameLabel \o argv[2])
            /\ file' = lines
            /\ ram' = st.ram
            /\ prog' = st.stored
            /\ raised' = st.raised
            /\ stage' = IF st.raised = NoException THEN "loaded" ELSE stage
    /\ UNCHANGED <<reg, PC, FL, running, steps, history>>

\* load() is called once, on the constructed machine
Load ==
    /\ stage = "constructed"
    /\ raised = NoException
    /\ \/ \E p \in Programs : load(<<Script, FileName>>, Listing(p))
       \/ \E f \in HandWritten : load(<<Script, FileName>>, f)
       \/ load(<<Script>>, <<>>)

(* ---- CPU.run: one iteration of the loop per action ---- *)
\* the mutant of InLoop: the loop does not test self.running
InLoop_ignores_running ==
    /\ stage = "loaded"
    /\ raised = NoException
    /\ steps < MaxSteps

\* the loop is entered: load() returned, nothing was raised, self.running holds
InLoop ==
    /\ stage = "loaded"
    /\ raised = NoException
    /\ running
    /\ steps < MaxSteps

\* self.ram[MAR], the read of ram_read and of the handlers
ram_read(MAR) == ram[At(MAR, RamSize)]

\* IR = self.ram_read(self.PC) gives op
Fetch(op) ==
    /\ InLoop
    /\ Valid(PC, RamSize)
    /\ ram_read(PC) = op

\* the operands of an arithmetic instruction are within the values followed
Followed(v) == -MaxValue <= v /\ v <= MaxValue

\* the bytes after the opcode, as far as the list goes
Operands ==
    [i \in 1..(IF Valid(PC + 2, RamSize) THEN 2 ELSE IF Valid(PC + 1, RamSize) THEN 1 ELSE 0)
        |-> ram_read(PC + i)]

\* the iteration that starts in this state, for the history
Fetched == [IR |-> ram_read(PC), PC |-> PC, args |-> Operands, reg |-> reg, FL |-> FL]

Logged ==
    history' = IF Valid(PC, RamSize) THEN Append(history, Fetched) ELSE history

\* the exception leaves the process with the state reached so far
Raise(type, args) ==
    /\ raised' = Exception(type, args)
    /\ steps' = steps + 1
    /\ Logged
    /\ UNCHANGED <<stage, prog, file>>

Return ==
    /\ steps' = steps + 1
    /\ Logged
    /\ UNCHANGED <<stage, prog, raised, file>>

\* the mutant of pushed: the stack pointer is left where it was
pushed_without_decrement(r) == r

\* the registers after self.reg[self.SP] -= 1
pushed(r) == [r EXCEPT ![SP] = r[SP] - 1]

\* the mutant of popped: the stack pointer is left where it was
popped_without_increment(r) == r

\* the registers after self.reg[self.SP] += 1
popped(r) == [r EXCEPT ![SP] = r[SP] + 1]

\* the mutant of ReturnAddress: the address of the CALL itself
ReturnAddress_of_call == PC

\* what CALL stores on the stack
ReturnAddress == PC + 2

\* IR = self.ram_read(self.PC) with PC outside the list
FetchIndexError ==
    /\ InLoop
    /\ ~Valid(PC, RamSize)
    /\ Raise("IndexError", <<>>)
    /\ UNCHANGED <<ram, reg, PC, FL, running, out>>

\* the mutant of UnknownOpcode: the byte is skipped and the loop goes on
UnknownOpcode_skips ==
    /\ InLoop
    /\ Valid(PC, RamSize)
    /\ ram_read(PC) \notin branchtable
    /\ PC' = PC + 1
    /\ Return
    /\ UNCHANGED <<ram, reg, FL, running, out>>

\* self.branchtable[IR] with IR no key of the dict
UnknownOpcode ==
    /\ InLoop
    /\ Valid(PC, RamSize)
    /\ ram_read(PC) \notin branchtable
    /\ Raise("KeyError", <<ram_read(PC)>>)
    /\ UNCHANGED <<ram, reg, PC, FL, running, out>>

\* the mutant of ldi: the operands taken in the other order
ldi_operands_swapped ==
    /\ Fetch(LDI)
    /\ IF Valid(PC + 1, RamSize) /\ Valid(PC + 2, RamSize)
          /\ Valid(ram_read(PC + 2), RegCount)
       THEN LET operand_a == ram_read(PC + 2)
                operand_b == ram_read(PC + 1) IN
            /\ reg' = [reg EXCEPT ![At(operand_a, RegCount)] = operand_b]
            /\ PC' = PC + 3
            /\ Return
       ELSE /\ Raise("IndexError", <<>>)
            /\ UNCHANGED <<reg, PC>>
    /\ UNCHANGED <<ram, FL, running, out>>

ldi ==
    /\ Fetch(LDI)
    /\ IF Valid(PC + 1, RamSize) /\ Valid(PC + 2, RamSize)
          /\ Valid(ram_read(PC + 1), RegCount)
       THEN LET operand_a == ram_read(PC + 1)
                operand_b == ram_read(PC + 2) IN
            /\ reg' = [reg EXCEPT ![At(operand_a, RegCount)] = operand_b]
            /\ PC' = PC + 3
            /\ Return
       ELSE /\ Raise("IndexError", <<>>)
            /\ UNCHANGED <<reg, PC>>
    /\ UNCHANGED <<ram, FL, running, out>>

prn ==
    /\ Fetch(PRN)
    /\ IF Valid(PC + 1, RamSize) /\ Valid(ram_read(PC + 1), RegCount)
       THEN LET print_val == ram_read(PC + 1) IN
            /\ out' = Append(out, Str(reg[At(print_val, RegCount)]))
            /\ PC' = PC + 2
            /\ Return
       ELSE /\ Raise("IndexError", <<>>)
            /\ UNCHANGED <<out, PC>>
    /\ UNCHANGED <<ram, reg, FL, running>>

mul ==
    /\ Fetch(MUL)
    /\ IF Valid(PC + 1, RamSize) /\ Valid(PC + 2, RamSize)
          /\ Valid(ram_read(PC + 1), RegCount) /\ Valid(ram_read(PC + 2), RegCount)
       THEN LET operand_a == At(ram_read(PC + 1), RegCount)
                operand_b == At(ram_read(PC + 2), RegCount) IN
            /\ Followed(reg[operand_a]) /\ Followed(reg[operand_b])
            /\ out' = Append(out, Str(reg[operand_a]) \o <<" ", "*", " ">>
                                    \o Str(reg[operand_b]) \o <<" ", "=">>)
            /\ reg' = [reg EXCEPT ![operand_a] = reg[operand_a] * reg[operand_b]]
            /\ PC' = PC + 3
            /\ Return
       ELSE /\ Raise("IndexError", <<>>)
            /\ UNCHANGED <<out, reg, PC>>
    /\ UNCHANGED <<ram, FL, running>>

hlt ==
    /\ Fetch(HLT)
    /\ running' = FALSE
    /\ PC' = PC + 1
    /\ Return
    /\ UNCHANGED <<ram, reg, FL, out>>

\* the mutant of push: a store into the loaded program is refused
push_protected ==
    /\ Fetch(PUSH)
    /\ IF ~Valid(PC + 1, RamSize)
       THEN Raise("IndexError", <<>>) /\ UNCHANGED <<reg, ram, PC>>
       ELSE LET register == ram_read(PC + 1)
                reg1 == pushed(reg) IN
            IF Valid(register, RegCount) /\ Valid(reg1[SP], RamSize)
               /\ At(reg1[SP], RamSize) >= Len(prog)
            THEN LET reg_value == reg1[At(register, RegCount)] IN
                 /\ reg' = reg1
                 /\ ram' = [ram EXCEPT ![At(reg1[SP], RamSize)] = reg_value]
                 /\ PC' = PC + 2
                 /\ Return
            ELSE /\ reg' = reg1
                 /\ Raise("IndexError", <<>>)
                 /\ UNCHANGED <<ram, PC>>
    /\ UNCHANGED <<FL, running, out>>

push ==
    /\ Fetch(PUSH)
    /\ IF ~Valid(PC + 1, RamSize)
       THEN Raise("IndexError", <<>>) /\ UNCHANGED <<reg, ram, PC>>
       ELSE LET register == ram_read(PC + 1)
                reg1 == pushed(reg) IN
            IF Valid(register, RegCount) /\ Valid(reg1[SP], RamSize)
            THEN LET reg_value == reg1[At(register, RegCount)] IN
                 /\ reg' = reg1
                 /\ ram' = [ram EXCEPT ![At(reg1[SP], RamSize)] = reg_value]
                 /\ PC' = PC + 2
                 /\ Return
            ELSE \* raised after self.reg[self.SP] -= 1
                 /\ reg' = reg1
                 /\ Raise("IndexError", <<>>)
                 /\ UNCHANGED <<ram, PC>>
    /\ UNCHANGED <<FL, running, out>>

pop ==
    /\ Fetch(POP)
    /\ IF Valid(reg[SP], RamSize) /\ Valid(PC + 1, RamSize)
          /\ Valid(ram_read(PC + 1), RegCount)
       THEN LET value == ram_read(reg[SP])
                register == ram_read(PC + 1)
                reg1 == [reg EXCEPT ![At(register, RegCount)] = value] IN
            /\ reg' = popped(reg1)
            /\ PC' = PC + 2
            /\ Return
       ELSE /\ Raise("IndexError", <<>>)
            /\ UNCHANGED <<reg, PC>>
    /\ UNCHANGED <<ram, FL, running, out>>

call ==
    /\ Fetch(CALL)
    /\ LET reg1 == pushed(reg) IN
       /\ reg' = reg1
       /\ IF ~Valid(reg1[SP], RamSize)
          THEN Raise("IndexError", <<>>) /\ UNCHANGED <<ram, PC>>
          ELSE LET ram1 == [ram EXCEPT ![At(reg1[SP], RamSize)] = ReturnAddress] IN
               /\ ram' = ram1
               /\ IF Valid(PC + 1, RamSize) /\ Valid(ram1[At(PC + 1, RamSize)], RegCount)
                  THEN LET register == ram1[At(PC + 1, RamSize)] IN
                       /\ PC' = reg1[At(register, RegCount)]
                       /\ Return
                  ELSE Raise("IndexError", <<>>) /\ UNCHANGED PC
    /\ UNCHANGED <<FL, running, out>>

ret ==
    /\ Fetch(RET)
    /\ IF Valid(reg[SP], RamSize)
       THEN LET return_address == ram_read(reg[SP]) IN
            /\ reg' = popped(reg)
            /\ PC' = return_address
            /\ Return
       ELSE /\ Raise("IndexError", <<>>)
            /\ UNCHANGED <<reg, PC>>
    /\ UNCHANGED <<ram, FL, running, out>>

\* the mutant of alu: an unequal CMP clears the flags
alu_clears(op, reg_a, reg_b) ==
    IF op = "ADD"
    THEN [reg |-> [reg EXCEPT ![reg_a] = reg[reg_a] + reg[reg_b]], FL |-> FL]
    ELSE [reg |-> reg, FL |-> IF reg[reg_a] = reg[reg_b] THEN 1 ELSE 0]

\* the mutant of alu: CMP subtracts in place to compare
alu_cmp_subtracts(op, reg_a, reg_b) ==
    IF op = "ADD"
    THEN [reg |-> [reg EXCEPT ![reg_a] = reg[reg_a] + reg[reg_b]], FL |-> FL]
    ELSE [reg |-> [reg EXCEPT ![reg_a] = reg[reg_a] - reg[reg_b]],
          FL |-> IF reg[reg_a] = reg[reg_b] THEN 1 ELSE FL]

\* CPU.alu: the registers and flags after op on reg_a, reg_b
alu(op, reg_a, reg_b) ==
    IF op = "ADD"
    THEN [reg |-> [reg EXCEPT ![reg_a] = reg[reg_a] + reg[reg_b]], FL |-> FL]
    ELSE [reg |-> reg, FL |-> IF reg[reg_a] = reg[reg_b] THEN 1 ELSE FL]

add ==
    /\ Fetch(ADD)
    /\ IF Valid(PC + 1, RamSize) /\ Valid(PC + 2, RamSize)
          /\ Valid(ram_read(PC + 1), RegCount) /\ Valid(ram_read(PC + 2), RegCount)
       THEN LET reg1 == At(ram_read(PC + 1), RegCount)
                reg2 == At(ram_read(PC + 2), RegCount) IN
            /\ Followed(reg[reg1]) /\ Followed(reg[reg2])
            /\ reg' = alu("ADD", reg1, reg2).reg
            /\ FL' = alu("ADD", reg1, reg2).FL
            /\ PC' = PC + 3
            /\ Return
       ELSE /\ Raise("IndexError", <<>>)
            /\ UNCHANGED <<reg, FL, PC>>
    /\ UNCHANGED <<ram, running, out>>

compare ==
    /\ Fetch(CMP)
    /\ IF Valid(PC + 1, RamSize) /\ Valid(PC + 2, RamSize)
          /\ Valid(ram_read(PC + 1), RegCount) /\ Valid(ram_read(PC + 2), RegCount)
       THEN LET reg1 == At(ram_read(PC + 1), RegCount)
                reg2 == At(ram_read(PC + 2), RegCount) IN
            /\ reg' = alu("CMP", reg1, reg2).reg
            /\ FL' = alu("CMP", reg1, reg2).FL
            /\ PC' = PC + 3
            /\ Return
       ELSE /\ Raise("IndexError", <<>>)
            /\ UNCHANGED <<reg, FL, PC>>
    /\ UNCHANGED <<ram, running, out>>

jmp ==
    /\ Fetch(JMP)
    /\ IF Valid(PC + 1, RamSize) /\ Valid(ram_read(PC + 1), RegCount)
       THEN LET register == At(ram_read(PC + 1), RegCount) IN
            PC' = reg[register] /\ Return
       ELSE Raise("IndexError", <<>>) /\ UNCHANGED PC
    /\ UNCHANGED <<ram, reg, FL, running, out>>

\* the mutant of EqualBit: the mask of the Greater bit, self.FL & 0b00000010
EqualBit_greater == (FL \div 2) % 2

\* self.FL & 0b00000001
EqualBit == FL % 2

jeq ==
    /\ Fetch(JEQ)
    /\ IF ~Valid(PC + 1, RamSize)
       THEN Raise("IndexError", <<>>) /\ UNCHANGED PC
       ELSE LET register == ram_read(PC + 1) IN
            IF EqualBit = 1
            THEN IF Valid(register, RegCount)
                 THEN PC' = reg[At(register, RegCount)] /\ Return
                 ELSE Raise("IndexError", <<>>) /\ UNCHANGED PC
            ELSE PC' = PC + 2 /\ Return
    /\ UNCHANGED <<ram, reg, FL, running, out>>

jne ==
    /\ Fetch(JNE)
    /\ IF ~Valid(PC + 1, RamSize)
       THEN Raise("IndexError", <<>>) /\ UNCHANGED PC
       ELSE LET register == ram_read(PC + 1) IN
            IF EqualBit = 0
            THEN IF Valid(register, RegCount)
                 THEN PC' = reg[At(register, RegCount)] /\ Return
                 ELSE Raise("IndexError", <<>>) /\ UNCHANGED PC
            ELSE PC' = PC + 2 /\ Return
    /\ UNCHANGED <<ram, reg, FL, running, out>>

\* the indices at which the iteration that starts in this state uses self.ram,
\* in the order of the code, were none of them to raise
AccessOrder ==
    IF ~Valid(PC, RamSize) THEN <<PC>>
    ELSE LET IR == ram_read(PC) IN
         IF IR \in {LDI, MUL, ADD, CMP} THEN <<PC, PC + 1, PC + 2>>
         ELSE IF IR \in {PRN, JMP, JEQ, JNE} THEN <<PC, PC + 1>>
         ELSE IF IR = PUSH
         THEN IF Valid(PC + 1, RamSize) /\ Valid(ram_read(PC + 1), RegCount)
              THEN <<PC, PC + 1, reg[SP] - 1>>
              ELSE <<PC, PC + 1>>
         ELSE IF IR = POP THEN <<PC, reg[SP], PC + 1>>
         ELSE IF IR = CALL THEN <<PC, reg[SP] - 1, PC + 1>>
         ELSE IF IR = RET THEN <<PC, reg[SP]>>
         ELSE <<PC>>

\* the indices used: those of AccessOrder up to the first that raises IndexError
Accesses ==
    {AccessOrder[i] : i \in {j \in 1..Len(AccessOrder) :
                                \A k \in 1..j - 1 : Valid(AccessOrder[k], RamSize)}}

\* an iteration of run() that dispatched to a handler
Handler ==
    ldi \/ prn \/ mul \/ hlt \/ push \/ pop \/ call \/ ret \/ add \/ compare \/ jmp \/ jeq \/ jne

Next ==
    \/ Load
    \/ ldi \/ prn \/ mul \/ hlt \/ push \/ pop \/ call \/ ret
    \/ add \/ compare \/ jmp \/ jeq \/ jne
    \/ UnknownOpcode
    \/ FetchIndexError

Spec == Init /\ [][Next]_vars

(* ======================== the claims ======================== *)
Byte == 0..255

\* the byte i places after the opcode names one of the registers 0..7
RegisterOperand(i) ==
    /\ Valid(PC + i, RamSize)
    /\ ram_read(PC + i) \in 0..RegCount - 1

\* the iteration run() executed last
Last == history[Len(history)]

\* what run() has written since it was entered (load() wrote one line before)
RunOutput == SubSeq(out, 2, Len(out))

(* C1: with byte values a, b in registers rA, rB, ADD rA,rB leaves           *)
(* (a + b) mod 256 in rA and MUL rA,rB leaves (a * b) mod 256 in rA, and PC  *)
(* advances by 3 in both cases.                                              *)
C1_ArithmeticWraps ==
    [][ /\ (add /\ RegisterOperand(1) /\ RegisterOperand(2)
               /\ reg[ram_read(PC + 1)] \in Byte /\ reg[ram_read(PC + 2)] \in Byte)
           => /\ reg'[ram_read(PC + 1)]
                    = (reg[ram_read(PC + 1)] + reg[ram_read(PC + 2)]) % 256
              /\ PC' = PC + 3
        /\ (mul /\ RegisterOperand(1) /\ RegisterOperand(2)
               /\ reg[ram_read(PC + 1)] \in Byte /\ reg[ram_read(PC + 2)] \in Byte)
           => /\ reg'[ram_read(PC + 1)]
                    = (reg[ram_read(PC + 1)] * reg[ram_read(PC + 2)]) % 256
              /\ PC' = PC + 3 ]_vars

(* C2: the run of LDI R0,8; LDI R1,9; MUL R0,R1; PRN R0; HLT loaded at       *)
(* address 0 writes exactly the one line 72 and ends with running false.     *)
C2_MultPrints72 ==
    (prog = MultProgram /\ stage = "loaded" /\ steps = 5)
        => /\ ~running
           /\ raised = NoException
           /\ RunOutput = << <<"7", "2">> >>

(* C3: the output of a run is the values of the PRN instructions executed,   *)
(* one line each, in order: a PRN step appends the decimal value its         *)
(* register holds at that moment, a step of any other instruction appends    *)
(* nothing.                                                                  *)
C3_OnlyPrnWrites ==
    [][ /\ (prn /\ RegisterOperand(1))
           => out' = Append(out, Str(reg[ram_read(PC + 1)]))
        /\ (ldi \/ mul \/ add \/ compare \/ push \/ pop \/ call \/ ret \/ jmp \/ jeq
               \/ jne \/ hlt)
           => out' = out ]_vars

C5_EqualIsSticky ==
    [][ /\ (compare /\ RegisterOperand(1) /\ RegisterOperand(2))
            => IF reg[ram_read(PC + 1)] = reg[ram_read(PC + 2)]
               THEN FL' % 2 = 1
               ELSE FL' = FL
        /\ FL % 2 = 1 => FL' % 2 = 1 ]_vars

\* an unequal CMP was executed with the Equal bit set
C5_Witness ==
    /\ history # <<>>
    /\ raised = NoException
    /\ Last.IR = CMP
    /\ Len(Last.args) = 2
    /\ Last.args[1] \in 0..RegCount - 1 /\ Last.args[2] \in 0..RegCount - 1
    /\ Last.reg[Last.args[1]] # Last.reg[Last.args[2]]
    /\ Last.FL = 1
    /\ FL = 1

(* C6: JEQ reg sets PC to reg's value when bit 0 of FL is 1 and to PC + 2   *)
(* otherwise; JNE reg sets PC to reg's value when bit 0 of FL is 0 and to   *)
(* PC + 2 otherwise; neither changes reg, ram or FL.                        *)
C6_ConditionalJumps ==
    [][ /\ (jeq /\ RegisterOperand(1))
            => /\ PC' = IF FL % 2 = 1 THEN reg[ram_read(PC + 1)] ELSE PC + 2
               /\ UNCHANGED <<reg, ram, FL>>
        /\ (jne /\ RegisterOperand(1))
            => /\ PC' = IF FL % 2 = 0 THEN reg[ram_read(PC + 1)] ELSE PC + 2
               /\ UNCHANGED <<reg, ram, FL>> ]_vars

\* a JEQ was taken, to an address that is not the fall-through
C6_Witness ==
    /\ history # <<>>
    /\ raised = NoException
    /\ Last.IR = JEQ
    /\ Last.FL = 1
    /\ Last.args # <<>> /\ Last.args[1] \in 0..RegCount - 1
    /\ PC = Last.reg[Last.args[1]]
    /\ PC # Last.PC + 2

(* C7: when PUSH r is executed and the next instruction executed is POP r,  *)
(* for any r in 0..7 (7, the stack pointer, included), then after the POP   *)
(* register r and the stack pointer hold what they held before the PUSH     *)
(* and PC is 4 past the PUSH.                                               *)
C7_PushPopRoundTrip ==
    [][ (/\ pop /\ raised' = NoException
         /\ history # <<>>
         /\ Last.IR = PUSH
         /\ RegisterOperand(1)
         /\ Last.args[1] = ram_read(PC + 1))
            => /\ reg'[ram_read(PC + 1)] = Last.reg[ram_read(PC + 1)]
               /\ reg'[SP] = Last.reg[SP]
               /\ PC' = Last.PC + 4 ]_vars

\* PUSH R7 and then POP R7 were executed
C7_Witness ==
    /\ Len(history) >= 2
    /\ raised = NoException
    /\ Last.IR = POP
    /\ history[Len(history) - 1].IR = PUSH
    /\ Last.args # <<>> /\ Last.args[1] = SP
    /\ history[Len(history) - 1].args[1] = SP
    /\ reg[SP] = history[Len(history) - 1].reg[SP]

(* C8: when a CALL at address c is executed and the next instruction        *)
(* executed is RET, then after the RET PC is c + 2 and the stack pointer    *)
(* holds what it held before the CALL.                                      *)
C8_CallRetReturns ==
    [][ (/\ ret /\ raised' = NoException
         /\ history # <<>>
         /\ Last.IR = CALL)
            => /\ PC' = Last.PC + 2
               /\ reg'[SP] = Last.reg[SP] ]_vars

\* a CALL and then a RET were executed
C8_Witness ==
    /\ Len(history) >= 2
    /\ raised = NoException
    /\ Last.IR = RET
    /\ history[Len(history) - 1].IR = CALL
    /\ PC = history[Len(history) - 1].PC + 2

(* C9: LDI r,v with r in 0..7 and v in 0..255 leaves v in register r and    *)
(* advances PC by 3; no other register, no cell of ram and not FL changes.  *)
C9_LdiLoads ==
    [][ (ldi /\ RegisterOperand(1) /\ Valid(PC + 2, RamSize) /\ ram_read(PC + 2) \in Byte)
            => /\ reg'[ram_read(PC + 1)] = ram_read(PC + 2)
               /\ \A r \in 0..RegCount - 1 : r # ram_read(PC + 1) => reg'[r] = reg[r]
               /\ PC' = PC + 3
               /\ UNCHANGED <<ram, FL>> ]_vars

\* LDI R1,100 was executed
C9_Witness ==
    /\ history # <<>>
    /\ raised = NoException
    /\ Last.IR = LDI
    /\ Last.args = <<1, 100>>
    /\ reg[1] = 100
    /\ Last.reg[1] = 0

\* a HLT is among the iterations executed
HltExecuted == \E i \in 1..Len(history) : history[i].IR = HLT

(* C10: running is true from construction until a HLT executes; the one     *)
(* step that makes it false is the HLT, which also advances PC by 1; once   *)
(* it is false no instruction is fetched: ram, reg, FL and PC stay as they  *)
(* are.                                                                     *)
C10_RunningUntilHlt ==
    /\ [](running \/ HltExecuted)
    /\ [][ /\ (running /\ ~running') => (hlt /\ PC' = PC + 1)
           /\ hlt => (~running' /\ PC' = PC + 1)
           /\ ~running => UNCHANGED <<ram, reg, FL, PC, running>> ]_vars

\* the run ended in a HLT
C10_Witness ==
    /\ ~running
    /\ history # <<>>
    /\ Last.IR = HLT
    /\ PC = Last.PC + 1

\* a line of a listing that holds an instruction: not blank, not a comment
IsInstruction(line) == ~(line = <<"\n">> \/ Head(line) = "#")

\* the bytes of a listing whose instruction lines are all binary literals
ProgramBytes(lines) ==
    LET instructions == SelectSeq(lines, IsInstruction) IN
    [i \in 1..Len(instructions) |-> IntBase2(Strip(BeforeHash(instructions[i])))]

WellFormed(lines) ==
    \A i \in 1..Len(lines) :
        IsInstruction(lines[i]) => IsBinary(Strip(BeforeHash(lines[i])))

(* C11: load() stores the bytes of the program at addresses 0, 1, 2, ... in  *)
(* order with no gaps; a program of more than 256 bytes makes load() fail    *)
(* with an error before any instruction is executed, it never returns with   *)
(* a truncated image.                                                        *)
C11_LoadCopiesOrFails ==
    [][ /\ (stage = "constructed" /\ raised'.type # "SystemExit" /\ WellFormed(file'))
            => \A bytes \in {ProgramBytes(file')} :
               IF Len(bytes) <= RamSize
               THEN /\ stage' = "loaded"
                    /\ raised' = NoException
                    /\ \A a \in 0..RamSize - 1 :
                          ram'[a] = IF a < Len(bytes) THEN bytes[a + 1] ELSE 0
               ELSE /\ stage' = "constructed"
                    /\ raised' # NoException
                    /\ steps' = 0
        /\ (stage = "constructed" /\ raised # NoException) => UNCHANGED vars ]_vars

\* load() failed on the 257th byte of a listing
C11_Witness ==
    /\ stage = "constructed"
    /\ raised.type = "IndexError"
    /\ Len(ProgramBytes(file)) = RamSize + 1
    /\ Len(prog) = RamSize
    /\ steps = 0


\* run() is in its loop: load() returned, self.running holds, nothing was raised
Looping == stage = "loaded" /\ running /\ raised = NoException

(* C12: in every reachable state in which running is true, 0 <= PC < 256.    *)
C12_PCInRange == Looping => PC \in 0..RamSize - 1

(* C13: in every reachable state each of the 8 registers, the stack pointer  *)
(* R7 included, holds a value in 0..255.                                     *)
C13_RegistersAreBytes == \A r \in 0..RegCount - 1 : reg[r] \in Byte

(* C14: in every reachable state ram has exactly 256 cells and, the loaded   *)
(* image being bytes, each cell holds a value in 0..255.                     *)
C14_MemoryIsBytes ==
    (\A i \in 1..Len(prog) : prog[i] \in Byte)
        => /\ DOMAIN ram = 0..RamSize - 1
           /\ \A a \in 0..RamSize - 1 : ram[a] \in Byte

(* C15: every access to ram that run() makes, the fetch at PC, the operand   *)
(* reads at PC + 1 and PC + 2 and the stack accesses at R7, uses an address  *)
(* in 0..255.                                                                *)
C15_AccessesInRange == Looping => Accesses \subseteq 0..RamSize - 1

(* C16: a run stops only by HLT or by the fault on an unsupported opcode: a  *)
(* step that fetched one of the 13 opcodes completes its handler, whatever   *)
(* the operand bytes and addresses.                                          *)
C16_OnlyTwoWaysToStop ==
    stage = "loaded" => \/ raised = NoException
                        \/ (raised.type = "KeyError" /\ Last.IR \notin branchtable)


(* C17: FL is changed by CMP alone, and CMP changes FL and PC alone: a step  *)
(* of any other instruction leaves FL as it is, a CMP step leaves the 8      *)
(* registers and every cell of ram as they are and advances PC by 3.         *)
C17_FlagsFrame ==
    [][ /\ ~compare => FL' = FL
        /\ compare => UNCHANGED <<reg, ram>>
        /\ (compare /\ raised' = NoException) => PC' = PC + 3 ]_vars

\* a CMP was executed and set the Equal bit
C17_Witness ==
    /\ history # <<>>
    /\ raised = NoException
    /\ Last.IR = CMP
    /\ Last.FL = 0 /\ FL = 1
    /\ reg = Last.reg
    /\ PC = Last.PC + 3

(* C18: during run() a step changes ram only if it executes PUSH or CALL,    *)
(* and then at most the one cell the decremented stack pointer addresses;    *)
(* LDI, PRN, MUL, ADD, CMP, POP, RET, JMP, JEQ, JNE and HLT leave every cell *)
(* as it is (POP and RET read the stack cell and do not clear it).           *)
C18_MemoryFrame ==
    [][ stage = "loaded"
            => /\ ram' # ram => (push \/ call)
               /\ \A a \in 0..RamSize - 1 :
                     ram'[a] # ram[a]
                        => /\ Valid(reg[SP] - 1, RamSize)
                           /\ a = At(reg[SP] - 1, RamSize) ]_vars

\* a POP was executed right after a PUSH, and the stack cell still holds the value
C18_Witness ==
    /\ Len(history) >= 2
    /\ raised = NoException
    /\ Last.IR = POP
    /\ history[Len(history) - 1].IR = PUSH
    /\ Valid(Last.reg[SP], RamSize)
    /\ ram_read(Last.reg[SP]) = reg[0]
    /\ Last.args[1] = 0
    /\ reg[0] # 0

(* C19: nothing protects the program from the stack: a PUSH or CALL whose    *)
(* stack address exists stores there whatever the cell holds and raises no   *)
(* fault, a byte of the loaded program included, and the value stored is     *)
(* what a later fetch at that address reads.                                 *)
C19_StackOverwritesCode ==
    [][ /\ (push /\ Valid(PC + 1, RamSize) /\ Valid(ram_read(PC + 1), RegCount)
                 /\ Valid(reg[SP] - 1, RamSize))
            => /\ raised' = NoException
               /\ ram'[At(reg[SP] - 1, RamSize)]
                     = IF At(ram_read(PC + 1), RegCount) = SP
                       THEN reg[SP] - 1
                       ELSE reg[At(ram_read(PC + 1), RegCount)]
        /\ (call /\ Valid(reg[SP] - 1, RamSize))
            => ram'[At(reg[SP] - 1, RamSize)] = PC + 2
        /\ (stage = "loaded" /\ Len(history') > Len(history))
            => history'[Len(history')].IR = ram[At(PC, RamSize)] ]_vars

\* a PUSH stored over a byte of the loaded program, and the next fetch read
\* the stored value at that address as its opcode
C19_Witness ==
    /\ Len(history) >= 2
    /\ raised = NoException
    /\ history[Len(history) - 1].IR = PUSH
    /\ \E cell \in 0..Len(prog) - 1 :
          /\ cell = At(history[Len(history) - 1].reg[SP] - 1, RamSize)
          /\ ram[cell] # prog[cell + 1]
          /\ Last.PC = cell
          /\ Last.IR = ram[cell]

====
